---- MODULE Spec2Model ----
(***************************************************************************)
(* ChartBuilder (src/chart/builder.rs): the builder's configuration calls  *)
(* and build_ranged, which lays a drawing area out into a plotting area    *)
(* and up to four label areas.                                             *)
(*                                                                         *)
(* Per-side arrays are functions over 0..3, indexed as in the source:      *)
(* 0 = Top, 1 = Bottom, 2 = Left, 3 = Right.  An Option is a set with at   *)
(* most one element ({} is None, {v} is Some(v)).  A rectangle is a record *)
(* [x0, y0, x1, y1] in pixels, y growing downward.  A u32 is carried as    *)
(* the i32 with the same bits.                                             *)
(***************************************************************************)
EXTENDS Integers, Sequences, FiniteSets, TLC

VARIABLES root_area, label_area_size, label_area_inset, title, margin,
          ncalls, result

vars == <<root_area, label_area_size, label_area_inset, title, margin,
          ncalls, result>>

(***************************************************************************)
(* Bounds of the model.                                                    *)
(***************************************************************************)
MaxMargin == 1
MaxSize == 2
MaxTitleH == 1
MaxCalls == 3

(***************************************************************************)
(* i32 arithmetic: with overflow checks a build panics on overflow,        *)
(* without them the operation wraps.                                       *)
(***************************************************************************)
Int32Max == 2147483647
Int32Min == -Int32Max - 1

AddOverflows(a, b) ==
    \/ b > 0 /\ a > Int32Max - b
    \/ b < 0 /\ a < Int32Min - b

WrappingAdd(a, b) ==
    IF b > 0 /\ a > Int32Max - b
    THEN (a - Int32Max - 1) + (b - Int32Max - 1)
    ELSE IF b < 0 /\ a < Int32Min - b
    THEN (a + Int32Max + 1) + (b + Int32Max + 1)
    ELSE a + b

SubOverflows(a, b) ==
    \/ b < 0 /\ a > Int32Max + b
    \/ b > 0 /\ a < Int32Min + b

WrappingSub(a, b) ==
    IF b < 0 /\ a > Int32Max + b
    THEN (a - Int32Max - 1) - (b + Int32Max + 1)
    ELSE IF b > 0 /\ a < Int32Min + b
    THEN (a + Int32Max + 1) - (b - Int32Max - 1)
    ELSE a - b

NegOverflows(a) == a = Int32Min

WrappingNeg(a) == IF a = Int32Min THEN Int32Min ELSE -a

(***************************************************************************)
(* LabelAreaPosition and the input sets.                                   *)
(***************************************************************************)
Top == 0
Bottom == 1
Left == 2
Right == 3
Pos == {Top, Bottom, Left, Right}

Rect(x0, y0, x1, y1) == [x0 |-> x0, y0 |-> y0, x1 |-> x1, y1 |-> y1]

RootW == 2 * MaxMargin + 1
RootH == 2 * MaxMargin + MaxTitleH
Roots == {Rect(0, 0, RootW, RootH), Rect(1, 2, 1 + RootW, 2 + RootH)}

MarginVals == 0..MaxMargin
SizeVals == (0..MaxSize) \cup {-1, Int32Min}
TitleVals == 1..MaxTitleH

(***************************************************************************)
(* The drawing area (crate::drawing::DrawingArea), used by the builder.    *)
(***************************************************************************)
AreaMargin(r, top, bottom, left, right) ==
    Rect(r.x0 + left, r.y0 + top, r.x1 - right, r.y1 - bottom)

\* The title takes th rows at the top of the area.
Titled(r, th) == [r EXCEPT !.y0 = r.y0 + th]

\* <<width, height>>
DimInPixel(r) == <<WrappingSub(r.x1, r.x0), WrappingSub(r.y1, r.y0)>>

RECURSIVE Insert(_, _)
Insert(v, s) ==
    IF s = <<>> THEN <<v>>
    ELSE IF v <= Head(s) THEN <<v>> \o s
    ELSE <<Head(s)>> \o Insert(v, Tail(s))

RECURSIVE SortAsc(_)
SortAsc(s) == IF s = <<>> THEN <<>> ELSE Insert(Head(s), SortAsc(Tail(s)))

\* The grid cut at the area's edges and at the breakpoints (offsets from the
\* area's origin), in ascending order; cells row by row, index 3*row + col.
SplitByBreakpoints(r, xbreaks, ybreaks) ==
    LET xs == SortAsc(<<r.x0, r.x1, WrappingAdd(xbreaks[1], r.x0),
                        WrappingAdd(xbreaks[2], r.x0)>>)
        ys == SortAsc(<<r.y0, r.y1, WrappingAdd(ybreaks[1], r.y0),
                        WrappingAdd(ybreaks[2], r.y0)>>)
    IN  [i \in 0..8 |->
            Rect(xs[(i % 3) + 1], ys[(i \div 3) + 1],
                 xs[(i % 3) + 2], ys[(i \div 3) + 2])]

Min2(a, b) == IF a <= b THEN a ELSE b

\* Each given coordinate replaces the area's own.
AlterNew(r, left_top, right_bottom) ==
    LET pick(opt, old) == IF opt = {} THEN old ELSE CHOOSE v \in opt : TRUE
        x0 == pick(left_top[1], r.x0)
        y0 == pick(left_top[2], r.y0)
        x1 == pick(right_bottom[1], r.x1)
        y1 == pick(right_bottom[2], r.y1)
    IN  Rect(Min2(x0, x1), Min2(y0, y1), x1, y1)

MakeInset(r) == r

GetPixelRange(r) == <<(<<r.x0, r.x1>>), (<<r.y0, r.y1>>)>>

(***************************************************************************)
(* ChartBuilder: the configuration.                                        *)
(***************************************************************************)
Builder ==
    [root_area |-> root_area, label_area_size |-> label_area_size,
     label_area_inset |-> label_area_inset, title |-> title, margin |-> margin]

NoResult == [kind |-> "none", error |-> {}, chart |-> {}, canvas_ops |-> <<>>]

Init ==
    /\ root_area \in Roots
    /\ label_area_size = [i \in Pos |-> 0]
    /\ label_area_inset = [i \in Pos |-> FALSE]
    /\ title = {}
    /\ margin = [i \in Pos |-> 0]
    /\ ncalls = 0
    /\ result = NoResult

Margin(m, size) == [i \in Pos |-> size]
\* margin_top writing the bottom slot
MarginTopWrongSide(m, size) == [m EXCEPT ![1] = size]

MarginTop(m, size) == [m EXCEPT ![0] = size]
MarginBottom(m, size) == [m EXCEPT ![1] = size]
MarginLeft(m, size) == [m EXCEPT ![2] = size]
MarginRight(m, size) == [m EXCEPT ![3] = size]

SetLabelAreaSize(l, pos, size) == [l EXCEPT ![pos] = size]

Configure ==
    /\ result.kind = "none"
    /\ ncalls < MaxCalls
    /\ ncalls' = ncalls + 1
    /\ UNCHANGED <<root_area, result>>

margin_all(size) ==
    /\ Configure
    /\ margin' = Margin(margin, size)
    /\ UNCHANGED <<label_area_size, label_area_inset, title>>

margin_top(size) ==
    /\ Configure
    /\ margin' = MarginTop(margin, size)
    /\ UNCHANGED <<label_area_size, label_area_inset, title>>

margin_bottom(size) ==
    /\ Configure
    /\ margin' = MarginBottom(margin, size)
    /\ UNCHANGED <<label_area_size, label_area_inset, title>>

margin_left(size) ==
    /\ Configure
    /\ margin' = MarginLeft(margin, size)
    /\ UNCHANGED <<label_area_size, label_area_inset, title>>

margin_right(size) ==
    /\ Configure
    /\ margin' = MarginRight(margin, size)
    /\ UNCHANGED <<label_area_size, label_area_inset, title>>

x_label_area_size(size) ==
    /\ Configure
    /\ label_area_size' = [label_area_size EXCEPT ![1] = size]
    /\ UNCHANGED <<label_area_inset, title, margin>>

inset_x_labels ==
    /\ Configure
    /\ label_area_inset' = [label_area_inset EXCEPT ![1] = TRUE]
    /\ UNCHANGED <<label_area_size, title, margin>>

y_label_area_size(size) ==
    /\ Configure
    /\ label_area_size' = [label_area_size EXCEPT ![2] = size]
    /\ UNCHANGED <<label_area_inset, title, margin>>

inset_y_labels ==
    /\ Configure
    /\ label_area_inset' = [label_area_inset EXCEPT ![2] = TRUE]
    /\ UNCHANGED <<label_area_size, title, margin>>

top_x_label_area_size(size) ==
    /\ Configure
    /\ label_area_size' = [label_area_size EXCEPT ![0] = size]
    /\ UNCHANGED <<label_area_inset, title, margin>>

inset_top_x_labels ==
    /\ Configure
    /\ label_area_inset' = [label_area_inset EXCEPT ![0] = TRUE]
    /\ UNCHANGED <<label_area_size, title, margin>>

right_y_label_area_size(size) ==
    /\ Configure
    /\ label_area_size' = [label_area_size EXCEPT ![3] = size]
    /\ UNCHANGED <<label_area_inset, title, margin>>

inset_right_y_labels ==
    /\ Configure
    /\ label_area_inset' = [label_area_inset EXCEPT ![3] = TRUE]
    /\ UNCHANGED <<label_area_size, title, margin>>

set_label_area_size(pos, size) ==
    /\ Configure
    /\ label_area_size' = SetLabelAreaSize(label_area_size, pos, size)
    /\ UNCHANGED <<label_area_inset, title, margin>>

\* The caption's text and style are carried as the rows the title takes.
caption(th) ==
    /\ Configure
    /\ title' = {th}
    /\ UNCHANGED <<label_area_size, label_area_inset, margin>>

(***************************************************************************)
(* build_ranged, a step at a time.  b is the builder's configuration.      *)
(***************************************************************************)
MaxOf(m) == CHOOSE v \in {m[i] : i \in Pos} : \A i \in Pos : m[i] <= v

\* the margin step skipped once a caption is set
WithMarginUnlessTitled(b) ==
    IF MaxOf(b.margin) > 0 /\ b.title = {}
    THEN AreaMargin(b.root_area, b.margin[0], b.margin[1], b.margin[2], b.margin[3])
    ELSE b.root_area

\* drawing_area after the margin step
WithMargin(b) ==
    IF MaxOf(b.margin) > 0
    THEN AreaMargin(b.root_area, b.margin[0], b.margin[1], b.margin[2], b.margin[3])
    ELSE b.root_area

\* drawing_area after the title step, when titled succeeds
WithTitle(b) ==
    IF b.title # {}
    THEN Titled(WithMargin(b), CHOOSE th \in b.title : TRUE)
    ELSE WithMargin(b)

Direction(idx) ==
    CASE idx = 0 -> <<0, -1>>
      [] idx = 1 -> <<0, 1>>
      [] idx = 2 -> <<-1, 0>>
      [] idx = 3 -> <<1, 0>>

\* the split point without the sign flip for Bottom and Right
SplitPointUnsigned(b, idx) ==
    IF ~b.label_area_inset[idx] THEN b.label_area_size[idx] ELSE 0

SplitPoint(b, idx) ==
    LET size == b.label_area_size[idx]
        d == Direction(idx)
    IN  IF ~b.label_area_inset[idx]
        THEN IF d[1] + d[2] < 0 THEN size ELSE WrappingNeg(size)
        ELSE 0

\* [0, h, 0, w] before the loop adds the split points
InitialDrawingAreaPos(b) ==
    LET wh == DimInPixel(WithTitle(b))
    IN  [idx \in Pos |-> CASE idx = 0 -> 0
                           [] idx = 1 -> wh[2]
                           [] idx = 2 -> 0
                           [] idx = 3 -> wh[1]]

ActualDrawingAreaPos(b) ==
    LET initial == InitialDrawingAreaPos(b)
    IN  [idx \in Pos |-> WrappingAdd(initial[idx], SplitPoint(b, idx))]

Splitted(b) ==
    LET pos == ActualDrawingAreaPos(b)
    IN  SplitByBreakpoints(WithTitle(b), <<pos[2], pos[3]>>, <<pos[0], pos[1]>>)

\* the bands taken from the grid with rows and columns exchanged
SrcIdxTransposed(dst_idx) ==
    CASE dst_idx = 0 -> 3
      [] dst_idx = 1 -> 5
      [] dst_idx = 2 -> 1
      [] dst_idx = 3 -> 7

SrcIdx(dst_idx) ==
    CASE dst_idx = 0 -> 1
      [] dst_idx = 1 -> 7
      [] dst_idx = 2 -> 3
      [] dst_idx = 3 -> 5

\* The cell moved into label_areas[dst_idx] by the first loop; a u32 is
\* positive exactly when it is not zero.
BandArea(splitted, dst_idx) ==
    LET cell == splitted[SrcIdx(dst_idx)]
        hw == DimInPixel(cell)
    IN  IF hw[1] # 0 /\ hw[2] # 0 THEN {cell} ELSE {}

IsInset(b, id) == b.label_area_inset[id] /\ b.label_area_size[id] # 0

\* The area put into label_areas[id] by the second loop.
InsetArea(b, area, id) ==
    LET wh == DimInPixel(area)
        w == wh[1]
        h == wh[2]
        size == b.label_area_size[id]
    IN  MakeInset(
          CASE id = 0 -> AlterNew(area, <<{}, {}>>, <<{}, {size}>>)
            [] id = 2 -> AlterNew(area, <<{}, {}>>, <<{size}, {}>>)
            [] id = 1 -> AlterNew(area, <<{}, {WrappingSub(h, size)}>>,
                                        <<{}, {WrappingSub(h, size)}>>)
            [] id = 3 -> AlterNew(area, <<{WrappingSub(w, size)}, {}>>, <<{}, {}>>))

\* label_areas after both loops
LabelAreasOf(b, splitted) ==
    [id \in Pos |-> IF IsInset(b, id) THEN {InsetArea(b, splitted[4], id)}
                                      ELSE BandArea(splitted, id)]

LabelAreas(b) == LabelAreasOf(b, Splitted(b))

PlotArea(b) == Splitted(b)[4]

\* the pixel range handed on as get_pixel_range returns it
PixelRangeNotInverted(drawing_area) == GetPixelRange(drawing_area)

PixelRange(drawing_area) ==
    LET pixel_range == GetPixelRange(drawing_area)
    IN  <<pixel_range[1], (<<pixel_range[2][2], pixel_range[2][1]>>)>>

\* Some i32 operation of build_ranged itself overflows.
BuilderOverflows(b) ==
    \/ \E idx \in {1, 3} :
          ~b.label_area_inset[idx] /\ NegOverflows(b.label_area_size[idx])
    \/ \E idx \in Pos :
          AddOverflows(InitialDrawingAreaPos(b)[idx], SplitPoint(b, idx))
    \/ \E id \in {1, 3} :
          /\ IsInset(b, id)
          /\ SubOverflows(DimInPixel(Splitted(b)[4])[IF id = 1 THEN 2 ELSE 1],
                          b.label_area_size[id])

Call(op, ret) == [op |-> op, ret |-> ret]

BackendErrors == {"BackendError", "SharingError"}
TitledResults == {"Ok"} \cup BackendErrors

ChartContext(b) ==
    LET splitted == Splitted(b)
        label_areas == LabelAreasOf(b, splitted)
    IN  [x_label_area |-> <<label_areas[0], label_areas[1]>>,
         y_label_area |-> <<label_areas[2], label_areas[3]>>,
         drawing_area |-> splitted[4],
         pixel_range  |-> PixelRange(splitted[4]),
         series_anno  |-> <<>>]

\* titled_ret is what the drawing area's titled returns when it is called;
\* overflow_checks is whether the build panics on overflow.
BuildRanged(b, titled_ret, overflow_checks) ==
    LET ops1 == <<Call("clone", "Ok")>>
                \o (IF MaxOf(b.margin) > 0 THEN <<Call("margin", "Ok")>> ELSE <<>>)
        ops2 == ops1 \o (IF b.title # {} THEN <<Call("titled", titled_ret)>> ELSE <<>>)
    IN  IF b.title # {} /\ titled_ret # "Ok"
        THEN [kind |-> "err", error |-> {titled_ret}, chart |-> {},
              canvas_ops |-> ops2]
        ELSE IF overflow_checks /\ BuilderOverflows(b)
        THEN [kind |-> "panic", error |-> {}, chart |-> {}, canvas_ops |-> ops2]
        ELSE [kind |-> "ok", error |-> {}, chart |-> {ChartContext(b)},
              canvas_ops |-> ops2 \o <<Call("split_by_breakpoints", "Ok"),
                                       Call("apply_coord_spec", "Ok")>>]

build_ranged ==
    /\ result.kind = "none"
    /\ \E titled_ret \in (IF title # {} THEN TitledResults ELSE {"Ok"}),
          overflow_checks \in BOOLEAN :
          result' = BuildRanged(Builder, titled_ret, overflow_checks)
    /\ UNCHANGED <<root_area, label_area_size, label_area_inset, title, margin, ncalls>>

Next ==
    \/ \E size \in MarginVals : margin_all(size)
    \/ \E size \in MarginVals : margin_top(size)
    \/ \E size \in MarginVals : margin_bottom(size)
    \/ \E size \in MarginVals : margin_left(size)
    \/ \E size \in MarginVals : margin_right(size)
    \/ \E size \in SizeVals : x_label_area_size(size)
    \/ inset_x_labels
    \/ \E size \in SizeVals : y_label_area_size(size)
    \/ inset_y_labels
    \/ \E size \in SizeVals : top_x_label_area_size(size)
    \/ inset_top_x_labels
    \/ \E size \in SizeVals : right_y_label_area_size(size)
    \/ inset_right_y_labels
    \/ \E pos \in Pos, size \in SizeVals : set_label_area_size(pos, size)
    \/ \E th \in TitleVals : caption(th)
    \/ build_ranged

Spec == Init /\ [][Next]_vars

(***************************************************************************)
(* Vocabulary of the properties.                                           *)
(***************************************************************************)
Built == result.kind = "ok"
Chart == CHOOSE c \in result.chart : TRUE
Interior == Chart.drawing_area
Label(p) ==
    CASE p = 0 -> Chart.x_label_area[1]
      [] p = 1 -> Chart.x_label_area[2]
      [] p = 2 -> Chart.y_label_area[1]
      [] p = 3 -> Chart.y_label_area[2]
LabelRect(p) == CHOOSE r \in Label(p) : TRUE

Width(r) == WrappingSub(r.x1, r.x0)
Height(r) == WrappingSub(r.y1, r.y0)

\* The canvas build_ranged lays out: the root area less the margins and the
\* rows of the title.
TitleRows == IF title = {} THEN 0 ELSE CHOOSE th \in title : TRUE
Canvas ==
    Rect(root_area.x0 + margin[2], root_area.y0 + margin[0] + TitleRows,
         root_area.x1 - margin[3], root_area.y1 - margin[1])

NoInsets == \A p \in Pos : ~label_area_inset[p]
NonNegativeSizes == \A p \in Pos : label_area_size[p] >= 0
SizesFit ==
    /\ label_area_size[0] + label_area_size[1] <= Height(Canvas)
    /\ label_area_size[2] + label_area_size[3] <= Width(Canvas)
ExtentsAddUp ==
    /\ Height(Interior) + label_area_size[0] + label_area_size[1] = Height(Canvas)
    /\ Width(Interior) + label_area_size[2] + label_area_size[3] = Width(Canvas)

\* C1 as stated: for every canvas and all non-negative, non-inset label
\* sizes, the interior's extent plus the two configured sizes on an axis is
\* the canvas's extent on that axis, also when the sizes exceed the canvas.
C1_AllSizes == (Built /\ NoInsets /\ NonNegativeSizes) => ExtentsAddUp

\* C1 amended: the same equality, for non-negative non-inset sizes whose sum
\* on each axis does not exceed the canvas's extent on that axis.
C1_FittingSizes == (Built /\ NoInsets /\ NonNegativeSizes /\ SizesFit) => ExtentsAddUp

C1_Witness ==
    /\ Built /\ NoInsets /\ NonNegativeSizes /\ SizesFit
    /\ label_area_size[0] > 0 /\ label_area_size[1] > 0
    /\ Height(Interior) < Height(Canvas)

Max2(a, b) == IF a >= b THEN a ELSE b

Inside(r, q) == q.x0 <= r.x0 /\ r.x1 <= q.x1 /\ q.y0 <= r.y0 /\ r.y1 <= q.y1

Flush(p, r, q) ==
    CASE p = 0 -> r.y0 = q.y0
      [] p = 1 -> r.y1 = q.y1
      [] p = 2 -> r.x0 = q.x0
      [] p = 3 -> r.x1 = q.x1

Thickness(p, r) == IF p \in {0, 1} THEN Height(r) ELSE Width(r)

FullSpan(p, r, q) ==
    IF p \in {0, 1} THEN r.x0 = q.x0 /\ r.x1 = q.x1
                    ELSE r.y0 = q.y0 /\ r.y1 = q.y1

InsetPositive(p) == label_area_inset[p] /\ label_area_size[p] > 0

\* C2: every Position flagged inset with size > 0 gets a label rectangle that
\* lies inside the interior, is flush against the interior's edge of that
\* Position, is exactly size thick and spans the interior on the other axis.
C2_InsetGeometry ==
    Built =>
      \A p \in Pos :
        InsetPositive(p) =>
          /\ Label(p) # {}
          /\ Inside(LabelRect(p), Interior)
          /\ Flush(p, LabelRect(p), Interior)
          /\ Thickness(p, LabelRect(p)) = label_area_size[p]
          /\ FullSpan(p, LabelRect(p), Interior)

\* The two rectangles share pixels.
Overlaps(r, q) ==
    /\ Max2(r.x0, q.x0) < Min2(r.x1, q.x1)
    /\ Max2(r.y0, q.y0) < Min2(r.y1, q.y1)

WithoutLabel(b, p) == [b EXCEPT !.label_area_size[p] = 0]

Builder800 ==
    [root_area |-> Rect(0, 0, 800, 600),
     label_area_size |-> [i \in Pos |-> 0],
     label_area_inset |-> [i \in Pos |-> FALSE],
     title |-> {},
     margin |-> [i \in Pos |-> 0]]

TopInset800 ==
    [Builder800 EXCEPT !.label_area_size[0] = 40, !.label_area_inset[0] = TRUE]

TopInset800Holds ==
    /\ PlotArea(TopInset800) = Rect(0, 0, 800, 600)
    /\ LabelAreas(TopInset800)[0] = {Rect(0, 0, 800, 40)}

\* C3: an inset label area with size > 0 leaves the interior as it is without
\* that label area, and its rectangle overlaps the interior; on 800x600 with a
\* top inset of 40 the interior keeps its height and the top label area is 40
\* high over the interior's full width.
C3_InsetLeavesInterior ==
    /\ Built =>
         \A p \in Pos :
           InsetPositive(p) =>
             /\ Interior = PlotArea(WithoutLabel(Builder, p))
             /\ Label(p) # {}
             /\ Overlaps(LabelRect(p), Interior)
    /\ TopInset800Holds

\* C4: a Position whose size is 0 gets no label rectangle, whatever its inset
\* flag and whatever the other Positions' sizes and flags.
C4_ZeroSizeAbsent ==
    Built => \A p \in Pos : label_area_size[p] = 0 => Label(p) = {}

BottomLeft800 ==
    [Builder800 EXCEPT !.label_area_size[1] = 50, !.label_area_size[2] = 60]

BottomLeft800Holds ==
    /\ DimInPixel(PlotArea(BottomLeft800)) = <<740, 550>>
    /\ \E r \in LabelAreas(BottomLeft800)[2] : DimInPixel(r) = <<60, 550>>
    /\ \E r \in LabelAreas(BottomLeft800)[1] : DimInPixel(r) = <<740, 50>>
    /\ LabelAreas(BottomLeft800)[0] = {} /\ LabelAreas(BottomLeft800)[3] = {}

\* C5: with no margin, title or inset and only the bottom size b and the left
\* size l set, 0 < b < H and 0 < l < W, the interior is (W-l) x (H-b), the left
\* label area l x (H-b), the bottom label area (W-l) x b, and there is no top or
\* right label area; 800x600 with b = 50, l = 60 gives 740x550, 60x550, 740x50.
C5_BottomLeftLayout ==
    /\ ( /\ Built /\ NoInsets /\ title = {}
         /\ \A p \in Pos : margin[p] = 0
         /\ label_area_size[0] = 0 /\ label_area_size[3] = 0
         /\ 0 < label_area_size[1] /\ label_area_size[1] < Height(root_area)
         /\ 0 < label_area_size[2] /\ label_area_size[2] < Width(root_area) )
       =>
       ( /\ Width(Interior) = Width(root_area) - label_area_size[2]
         /\ Height(Interior) = Height(root_area) - label_area_size[1]
         /\ Label(2) # {} /\ Label(1) # {}
         /\ Width(LabelRect(2)) = label_area_size[2]
         /\ Height(LabelRect(2)) = Height(root_area) - label_area_size[1]
         /\ Width(LabelRect(1)) = Width(root_area) - label_area_size[2]
         /\ Height(LabelRect(1)) = label_area_size[1]
         /\ Label(0) = {} /\ Label(3) = {} )
    /\ BottomLeft800Holds

C5_Witness ==
    /\ Built /\ NoInsets /\ title = {}
    /\ \A p \in Pos : margin[p] = 0
    /\ label_area_size = [i \in Pos |-> IF i = 1 THEN 1 ELSE IF i = 2 THEN 2 ELSE 0]
    /\ Label(1) # {} /\ Label(2) # {}

OpIndex(name) ==
    {i \in DOMAIN result.canvas_ops : result.canvas_ops[i].op = name}

\* What the label at p carves out of the canvas.
Carved(p) == IF label_area_inset[p] THEN 0 ELSE label_area_size[p]

CarvedFits ==
    /\ \A p \in Pos : Carved(p) >= 0
    /\ Carved(0) + Carved(1) <= Height(Canvas)
    /\ Carved(2) + Carved(3) <= Width(Canvas)

C7_PixelRange ==
    Built =>
      /\ Chart.pixel_range[1] = <<Interior.x0, Interior.x1>>
      /\ Chart.pixel_range[2] = <<Interior.y1, Interior.y0>>

C7_Witness ==
    /\ Built
    /\ Interior.x0 < Interior.x1 /\ Interior.y0 < Interior.y1
    /\ Chart.pixel_range[2][1] > Chart.pixel_range[2][2]

StepFailed ==
    \E i \in DOMAIN result.canvas_ops :
       /\ result.canvas_ops[i].op \in {"margin", "titled"}
       /\ result.canvas_ops[i].ret # "Ok"

\* C8: build returns an error only when the margin or the title step fails,
\* and then that very error and nothing else; whenever those steps succeed,
\* build returns a chart context, for every configuration.
C8_ErrorsOnlyFromCanvas ==
    result.kind # "none" =>
      /\ result.kind = "err" =>
           /\ StepFailed
           /\ result.error = {result.canvas_ops[Len(result.canvas_ops)].ret}
           /\ result.chart = {}
      /\ ~StepFailed => result.kind = "ok" /\ result.chart # {}

ZeroMargin(b) == [b EXCEPT !.margin = [i \in Pos |-> 0]]

\* C9: once a caption is set the margin is ignored: the layout is the one the
\* same builder gives with all four margins 0.
C9_CaptionIgnoresMargin ==
    (Built /\ title # {}) => Chart = ChartContext(ZeroMargin(Builder))

FourSides ==
    {<<a, b, c, d>> : a \in Pos, b \in Pos, c \in Pos, d \in Pos}

SetSide(m, side, size) ==
    CASE side = 0 -> MarginTop(m, size)
      [] side = 1 -> MarginBottom(m, size)
      [] side = 2 -> MarginLeft(m, size)
      [] side = 3 -> MarginRight(m, size)

InAnyOrder(m, order, size) ==
    SetSide(SetSide(SetSide(SetSide(m, order[1], size), order[2], size),
                    order[3], size), order[4], size)

Orders == {o \in FourSides : {o[1], o[2], o[3], o[4]} = Pos}

OnlySide(side, size) ==
    /\ margin'[side] = size
    /\ \A i \in Pos \ {side} : margin'[i] = margin[i]

\* C10: margin(s) leaves the builder, and so the layout built from it, as the
\* four one-side calls with s do in any order; and each margin call sets the
\* sides it names and no other, so a side holds what the last call on it set.
C10_MarginCalls ==
    [][(Configure /\ UNCHANGED <<label_area_size, label_area_inset, title>>) =>
         \A s \in MarginVals :
           /\ margin_all(s) =>
                /\ \A o \in Orders : margin' = InAnyOrder(margin, o, s)
                /\ ChartContext([Builder EXCEPT !.margin = margin']) =
                   ChartContext([Builder EXCEPT
                                   !.margin = InAnyOrder(margin, <<0, 1, 2, 3>>, s)])
                /\ \A i \in Pos : margin'[i] = s
           /\ margin_top(s) => OnlySide(0, s)
           /\ margin_bottom(s) => OnlySide(1, s)
           /\ margin_left(s) => OnlySide(2, s)
           /\ margin_right(s) => OnlySide(3, s)]_vars

C10_Witness ==
    /\ Built
    /\ margin = [i \in Pos |-> IF i = 0 THEN 0 ELSE MaxMargin]

====
